---- MODULE Spec2Model ----
(***************************************************************************)
(* Model of package fetch (src/fetcher.go): one Job and one call of        *)
(* Job.Fetch, cut into the steps of the procedure.  The collaborators      *)
(* (URL normalizer, appengine context, http client / server, clock) are    *)
(* the environment: their results are drawn from small sets.               *)
(*                                                                         *)
(* Strings are TLA+ strings; an error text and the diagnostic Msg are      *)
(* sequences of text pieces, and strings.Contains(text, piece) is          *)
(* membership of the piece in the sequence.                                *)
(***************************************************************************)
EXTENDS Integers, Sequences, FiniteSets, TLC

VARIABLES
    f,          \* the Job (receiver of Fetch): its fields
    pc,         \* position of the Fetch call
    err,        \* local err of Fetch (result of the first client.Do, later of time.Parse)
    err2nd,     \* local err2nd (result of the fallback client.Do)
    httpsCause, \* local httpsCause
    resp,       \* local resp
    ctx,        \* local ctx: TRUE when an appengine context was derived
    client,     \* local client
    via,        \* inside client.Do: requests (paths) made so far in the redirect chain
    now,        \* wall clock (minutes)
    dev,        \* appengine.IsDevAppServer() of this process
    entry,      \* the outcome fields of the Job when Fetch was called
    dispatches, \* history: the requests handed to client.Do
    handled,    \* history: invocations of redirectHandler with their results
    outcomes,   \* history: the error each finished client.Do returned (NoErr: none)
    parsed,     \* history: result of util.UrlParseImproved: "none", "failed", "ok"
    wrote,      \* history: outcome fields assigned by this call
    body        \* resp.Body of the response in hand: "none", "open", "closed"

vars == <<f, pc, err, err2nd, httpsCause, resp, ctx, client, via, now, dev,
          entry, dispatches, handled, outcomes, parsed, wrote, body>>

----------------------------------------------------------------------------
(* Bounds *)

MaxHops == 2        \* redirect hops one server chain may contain
MaxDrift == 1       \* minutes the clock may advance between two readings
EntryNow == 1000    \* clock reading when Fetch is called

----------------------------------------------------------------------------
(* Program constants *)

MsgNoRedirects == "redirect cancelled"
DefaultTimeout == 35
TenMinutes == 10
SigCert == "SSL_CERTIFICATE_ERROR"
SigOversized == "tls: oversized record received with length"
SigCancelRequest == "net/http: Client Transport of type init.failingTransport doesn't support CancelRequest; Timeout not supported"
MsgEmptyResponse == "resp or resp.Body was nil"

ZeroTime == 0       \* the zero time.Time

----------------------------------------------------------------------------
(* Values *)

\* error values; `at' is the identity of the error object (where it was made)
NoErr == [at |-> "nil", text |-> <<>>]
MkErr(at, text) == [at |-> at, text |-> text]

\* strings.Contains(err.Error(), piece)
Contains(text, piece) == \E i \in DOMAIN text : text[i] = piece

\* strings.TrimSuffix(s, suffix) for a one-character suffix
TrimSuffix(s, suffix) ==
    IF Len(s) >= 1 /\ SubSeq(s, Len(s), Len(s)) = suffix
    THEN SubSeq(s, 1, Len(s) - 1)
    ELSE s

\* *http.Request: nil, or its method and the scheme and path of its URL
NilReq == [nil |-> TRUE, Method |-> "", Scheme |-> "", Path |-> ""]
MkReq(m, s, p) == [nil |-> FALSE, Method |-> m, Scheme |-> s, Path |-> p]

\* *http.Response
NilResp == [nil |-> TRUE, StatusCode |-> 0, Body |-> FALSE, LastModified |-> <<>>]
MkResp(code, hasBody, lm) ==
    [nil |-> FALSE, StatusCode |-> code, Body |-> hasBody, LastModified |-> lm]

NoClient == [kind |-> "none", Timeout |-> 0, CheckRedirect |-> FALSE]

----------------------------------------------------------------------------
(* Inputs *)

Methods == {"GET", "POST"}
SchemesIn == {"", "http", "https"}
PathsIn == {"", "/a"}
ForceProtocols == {"", "h", "http", "https:", "ftp:"}
RawURLs == {"example.com/a"}
StaleMsg == <<"stale">>
StaleBts == "old"

SuppliedReqs == {MkReq(m, s, p) : m \in Methods, s \in SchemesIn, p \in PathsIn}

\* Timeout and LogLevel as the caller sets them
Settings == {<<0, 0>>, <<5, 1>>}

\* a Job as the caller may hand it to Fetch: a fresh one, or one whose outcome
\* fields still hold older values
Jobs ==
    { [URL |-> u, Req |-> r, Timeout |-> tl[1], OnRedirect |-> o, LogLevel |-> tl[2],
       ForceProtocol |-> fp, ForceHttps |-> fh, AeReq |-> ae,
       Status |-> IF used THEN 299 ELSE 0,
       bts |-> IF used THEN StaleBts ELSE "",
       Mod |-> IF used THEN 77 ELSE ZeroTime,
       Msg |-> IF used THEN StaleMsg ELSE <<>>,
       Err |-> NoErr] :
        u \in RawURLs, r \in SuppliedReqs \cup {NilReq}, tl \in Settings,
        o \in {0, 1}, fp \in ForceProtocols,
        fh \in BOOLEAN, ae \in BOOLEAN, used \in BOOLEAN }

\* the outcome fields of a Job
Outcome(j) == [Status |-> j.Status, bts |-> j.bts, Mod |-> j.Mod, Msg |-> j.Msg, Err |-> j.Err]

Init ==
    /\ f \in Jobs
    /\ pc = "entry"
    /\ err = NoErr
    /\ err2nd = NoErr
    /\ httpsCause = FALSE
    /\ resp = NilResp
    /\ ctx = FALSE
    /\ client = NoClient
    /\ via = <<>>
    /\ now = EntryNow
    /\ dev \in BOOLEAN
    /\ entry = Outcome(f)
    /\ dispatches = <<>>
    /\ handled = <<>>
    /\ outcomes = <<>>
    /\ parsed = "none"
    /\ wrote = {}
    /\ body = "none"

----------------------------------------------------------------------------
(* Fetch, lines 84-97: default timeout, log of the original url *)

\* variant: the message is assigned, not appended
Log_Overwrites(msg, piece) == <<piece>>

\* f.Msg += piece
Log(msg, piece) == Append(msg, piece)

Begin ==
    /\ pc = "entry"
    /\ f' = [f EXCEPT
                !.Timeout = IF f.Timeout = 0 THEN DefaultTimeout ELSE f.Timeout,
                !.Msg = IF f.LogLevel > 0
                        THEN IF ~f.Req.nil THEN Log(f.Msg, "orig req url: ")
                                           ELSE Log(f.Msg, "orig str url: ")
                        ELSE f.Msg]
    /\ pc' = "build"
    /\ UNCHANGED <<err, err2nd, httpsCause, resp, ctx, client, via, now, dev,
                   entry, dispatches, handled, outcomes, parsed, wrote, body>>

----------------------------------------------------------------------------
(* Fetch, lines 99-122: take the provided request or build one from f.URL *)

\* results of util.UrlParseImproved(f.URL): an error, or the parsed URL
ParseErr == MkErr("parse", <<"parse", "invalid URL">>)
ParsedURLs == [Scheme : {"", "http", "https"}, Path : {"", "/a"}]

\* u.String()
URLString(u) ==
    (IF u.Scheme = "" THEN "" ELSE u.Scheme \o "://") \o "example.com" \o u.Path

NewRequestErr == MkErr("newreq", <<"net/http: invalid request">>)

\* variant: lines 120-122 are missing
DefaultPath_Keeps(req) == req

\* lines 120-122
DefaultPath(req) == IF req.Path = "" THEN [req EXCEPT !.Path = "/"] ELSE req

\* lines 114-118
DefaultScheme(req) == IF req.Scheme = "" THEN [req EXCEPT !.Scheme = "https"] ELSE req

\* variant: the return of line 106 is missing
BuildParseFails_GoesOn ==
    /\ pc = "build"
    /\ f.Req.nil
    /\ f' = [f EXCEPT !.Err = ParseErr]
    /\ parsed' = "failed"
    /\ wrote' = wrote \cup {"Err"}
    /\ pc' = "force"
    /\ UNCHANGED <<err, err2nd, httpsCause, resp, ctx, client, via, now, dev,
                   entry, dispatches, handled, outcomes, body>>

\* f.Req == nil, UrlParseImproved fails (lines 104-107)
BuildParseFails ==
    /\ pc = "build"
    /\ f.Req.nil
    /\ f' = [f EXCEPT !.Err = ParseErr]
    /\ parsed' = "failed"
    /\ wrote' = wrote \cup {"Err"}
    /\ pc' = "done"
    /\ UNCHANGED <<err, err2nd, httpsCause, resp, ctx, client, via, now, dev,
                   entry, dispatches, handled, outcomes, body>>

\* f.Req == nil, UrlParseImproved succeeds, http.NewRequest fails (lines 108-113)
BuildNewRequestFails ==
    /\ pc = "build"
    /\ f.Req.nil
    /\ \E u \in ParsedURLs :
          f' = [f EXCEPT !.URL = URLString(u), !.Req = NilReq, !.Err = NewRequestErr]
    /\ parsed' = "ok"
    /\ wrote' = wrote \cup {"Err"}
    /\ pc' = "done"
    /\ UNCHANGED <<err, err2nd, httpsCause, resp, ctx, client, via, now, dev,
                   entry, dispatches, handled, outcomes, body>>

\* f.Req == nil, a GET request is built from the normalized URL (lines 104-122)
BuildFromURL ==
    /\ pc = "build"
    /\ f.Req.nil
    /\ \E u \in ParsedURLs :
          f' = [f EXCEPT !.URL = URLString(u),
                         !.Req = DefaultPath(MkReq("GET", u.Scheme, u.Path)),
                         !.Err = NoErr]
    /\ parsed' = "ok"
    /\ wrote' = wrote \cup {"Err"}
    /\ pc' = "force"
    /\ UNCHANGED <<err, err2nd, httpsCause, resp, ctx, client, via, now, dev,
                   entry, dispatches, handled, outcomes, body>>

\* a request was supplied (lines 114-122)
BuildFromReq ==
    /\ pc = "build"
    /\ ~f.Req.nil
    /\ f' = [f EXCEPT !.Req = DefaultPath(DefaultScheme(f.Req))]
    /\ pc' = "force"
    /\ UNCHANGED <<err, err2nd, httpsCause, resp, ctx, client, via, now, dev,
                   entry, dispatches, handled, outcomes, parsed, wrote, body>>

----------------------------------------------------------------------------
(* Fetch, lines 124-130: forced protocol *)

\* the request after the override; fp is the trimmed ForceProtocol
ForceScheme(req, fp) ==
    IF fp = "http" \/ fp = "https" THEN [req EXCEPT !.Scheme = fp] ELSE req

ForceProto ==
    /\ pc = "force"
    /\ IF Len(f.ForceProtocol) > 1
       THEN LET fp == TrimSuffix(f.ForceProtocol, ":") IN
            f' = [f EXCEPT !.ForceProtocol = fp,
                           !.Req = ForceScheme(f.Req, fp),
                           !.Msg = IF fp = "http" \/ fp = "https"
                                   THEN Log(f.Msg, "Forcing protocol ")
                                   ELSE f.Msg]
       ELSE f' = f
    /\ pc' = "client"
    /\ UNCHANGED <<err, err2nd, httpsCause, resp, ctx, client, via, now, dev,
                   entry, dispatches, handled, outcomes, parsed, wrote, body>>

----------------------------------------------------------------------------
(* Fetch, lines 132-167: choice of the client *)

\* results of appengine.NewContext(f.AeReq)
Derivations == {"context", "nil", "panic"}

\* lines 163-166
DevDowngrade(req, isDev, forceHttps) ==
    IF isDev /\ ~forceHttps THEN [req EXCEPT !.Scheme = "http"] ELSE req

\* variant: the context is not looked at
UseStandardClient_AeReqOnly(aeReq, derived) == ~aeReq

\* line 147: f.AeReq == nil || ctx == nil
UseStandardClient(aeReq, derived) == ~aeReq \/ ~derived

SelectClient ==
    /\ pc = "client"
    /\ \E d \in Derivations :
        LET derived == f.AeReq /\ d = "context"
            msg1 == IF f.AeReq THEN Log(f.Msg, "appengine panic: ") ELSE f.Msg
        IN
        /\ ctx' = derived
        /\ IF UseStandardClient(f.AeReq, derived)
           THEN /\ client' = [kind |-> "standard", Timeout |-> f.Timeout,
                              CheckRedirect |-> FALSE]
                /\ f' = [f EXCEPT !.Msg = Log(msg1, "standard  client")]
           ELSE /\ client' = [kind |-> "appengine", Timeout |-> f.Timeout,
                              CheckRedirect |-> FALSE]
                /\ f' = [f EXCEPT !.Msg = Log(msg1, "appengine client"),
                                  !.Req = DevDowngrade(f.Req, dev, f.ForceHttps)]
    /\ pc' = "redirect"
    /\ UNCHANGED <<err, err2nd, httpsCause, resp, via, now, dev,
                   entry, dispatches, handled, outcomes, parsed, wrote, body>>

----------------------------------------------------------------------------
(* Fetch, lines 169-187: log of the final url, redirect policy *)

InstallRedirect ==
    /\ pc = "redirect"
    /\ f' = [f EXCEPT !.Msg = IF f.LogLevel > 0
                              THEN Log(f.Msg, "url standardized to ")
                              ELSE f.Msg]
    /\ client' = [client EXCEPT !.CheckRedirect = (f.OnRedirect = 1)]
    /\ pc' = "do1"
    /\ UNCHANGED <<err, err2nd, httpsCause, resp, ctx, via, now, dev,
                   entry, dispatches, handled, outcomes, parsed, wrote, body>>

----------------------------------------------------------------------------
(* The client and the server: client.Do(f.Req), lines 191 and 225 *)

\* variant: the trailing-slash redirect is allowed at any hop
redirectHandler_AnyHop(reqPath, viaPaths) ==
    IF Len(viaPaths) >= 1 /\ reqPath = viaPaths[1] \o "/"
    THEN NoErr
    ELSE MkErr("handler", <<MsgNoRedirects>> \o viaPaths \o <<reqPath>>)

\* redirectHandler, lines 174-185: nil for the one allowed redirect, else the
\* error "redirect cancelled" with the visited paths and the target path
redirectHandler(reqPath, viaPaths) ==
    IF Len(viaPaths) = 1 /\ reqPath = viaPaths[1] \o "/"
    THEN NoErr
    ELSE MkErr("handler", <<MsgNoRedirects>> \o viaPaths \o <<reqPath>>)

\* client.Do wraps the error of CheckRedirect in a *url.Error of this dispatch
WrapErr(at, e) == MkErr(at, <<"Get">> \o e.text)

\* paths a server may redirect to
Targets == {"/a/", "//", "/b"}

\* texts of the errors a dispatch may fail with (besides a rejected redirect)
TransportErrs ==
    { <<"Get", "dial tcp: i/o timeout">>,
      <<"Get", SigCert>>,
      <<"Get", SigOversized>>,
      <<"Get", MsgNoRedirects>>,
      <<"Get", MsgNoRedirects, SigCert>>,
      <<"Get", SigCert, SigCancelRequest>> }

\* values of the Last-Modified header: absent, or its date-time and zone parts
GoodDate == "Sat, 29 Aug 2015 21:15:39"
LastModifieds ==
    { <<>>, <<GoodDate, "GMT">>, <<GoodDate, "+0100">>, <<"yesterday", "GMT">> }

\* responses a dispatch may succeed with
Responses ==
    {NilResp} \cup
    { MkResp(code, FALSE, <<>>) : code \in {200, 404} } \cup
    { MkResp(code, TRUE, lm) : code \in {200, 404}, lm \in LastModifieds }

\* the request as the transport sees it
Sent(req) == [Method |-> req.Method, Scheme |-> req.Scheme, Path |-> req.Path]

\* which dispatch is on the wire
OnWire == pc \in {"wire1", "wire2"}
DoId == IF pc = "wire1" THEN "do1" ELSE "do2"

\* line 191: resp, err := client.Do(f.Req)
Dispatch1 ==
    /\ pc = "do1"
    /\ dispatches' = Append(dispatches, Sent(f.Req))
    /\ via' = <<f.Req.Path>>
    /\ pc' = "wire1"
    /\ UNCHANGED <<f, err, err2nd, httpsCause, resp, ctx, client, now, dev,
                   entry, handled, outcomes, parsed, wrote, body>>

\* line 225: resp, err2nd = client.Do(f.Req)
Dispatch2 ==
    /\ pc = "do2"
    /\ dispatches' = Append(dispatches, Sent(f.Req))
    /\ via' = <<f.Req.Path>>
    /\ pc' = "wire2"
    /\ UNCHANGED <<f, err, err2nd, httpsCause, resp, ctx, client, now, dev,
                   entry, handled, outcomes, parsed, wrote, body>>

\* client.Do returns (nil, e)
DoFails(e) ==
    /\ resp' = NilResp
    /\ outcomes' = Append(outcomes, e)
    /\ IF pc = "wire1"
       THEN /\ err' = e
            /\ pc' = "err1"
            /\ UNCHANGED err2nd
       ELSE /\ err2nd' = e
            /\ pc' = "err2"
            /\ UNCHANGED err

\* the server answers with a redirect and the client asks CheckRedirect
\* (without CheckRedirect the client follows redirects by itself)
ServerRedirects ==
    /\ OnWire
    /\ client.CheckRedirect
    /\ Len(via) <= MaxHops
    /\ \E target \in Targets :
        LET r == redirectHandler(target, via) IN
        /\ handled' = Append(handled, [via |-> via, target |-> target, result |-> r])
        /\ IF r = NoErr
           THEN /\ via' = Append(via, target)
                /\ UNCHANGED <<pc, err, err2nd, resp, outcomes>>
           ELSE /\ DoFails(WrapErr(DoId, r))
                /\ UNCHANGED via
    /\ UNCHANGED <<f, httpsCause, ctx, client, now, dev, entry, dispatches, parsed,
                   wrote, body>>

\* the dispatch fails in the transport
TransportFails ==
    /\ OnWire
    /\ \E text \in TransportErrs : DoFails(MkErr(DoId, text))
    /\ UNCHANGED <<f, httpsCause, ctx, client, via, now, dev,
                   entry, dispatches, handled, parsed, wrote, body>>

\* the dispatch succeeds: client.Do returns (r, nil)
ServerResponds ==
    /\ OnWire
    /\ \E r \in Responses :
        /\ resp' = r
        /\ body' = IF ~r.nil /\ r.Body THEN "open" ELSE "none"
    /\ outcomes' = Append(outcomes, NoErr)
    /\ pc' = IF pc = "wire1" THEN "check" ELSE "ok2"
    /\ UNCHANGED <<f, err, err2nd, httpsCause, ctx, client, via, now, dev,
                   entry, dispatches, handled, parsed, wrote>>

----------------------------------------------------------------------------
(* Fetch, lines 193-245: the error of the first dispatch, the fallback *)

\* variant: the TLS signatures are looked for before the redirect marker
IsRedirectRejection_AfterTls(onRedirect, e) ==
    /\ onRedirect = 1
    /\ Contains(e.text, MsgNoRedirects)
    /\ ~Contains(e.text, SigCert)
    /\ ~Contains(e.text, SigOversized)

\* variant: OnRedirect is not tested
IsRedirectRejection_AnyPolicy(onRedirect, e) ==
    Contains(e.text, MsgNoRedirects)

\* lines 195-196 and 229-230
IsRedirectRejection(onRedirect, e) ==
    onRedirect = 1 /\ Contains(e.text, MsgNoRedirects)

\* variant: line 206 is missing
HttpsCause_CertOnly(prev, e) ==
    prev \/ Contains(e.text, SigCert)

\* lines 205-206
HttpsCause(prev, e) ==
    prev \/ Contains(e.text, SigCert) \/ Contains(e.text, SigOversized)

\* line 208
NoFallbackForPost(cause, req) ==
    cause /\ req.Scheme = "https" /\ req.Method = "POST"

\* variant: the scheme is not tested
FallbackApplies_AnyScheme(cause, req) ==
    cause /\ req.Method = "GET"

\* line 222
FallbackApplies(cause, req) ==
    cause /\ req.Scheme = "https" /\ req.Method = "GET"

\* variant: line 223 is missing
FallbackRequest_SameScheme(req) == req

\* line 223
FallbackRequest(req) == [req EXCEPT !.Scheme = "http"]

\* lines 197-200 and 231-234: time.Now().Add(-10 * time.Minute)
StaleMod(t) == t - TenMinutes

\* lines 195-202: the first dispatch ended in a rejected redirect
FirstRedirectRejected ==
    /\ pc = "err1"
    /\ IsRedirectRejection(f.OnRedirect, err)
    /\ \E t \in now .. now + MaxDrift :
        /\ now' = t
        /\ f' = [f EXCEPT !.Mod = StaleMod(t),
                          !.Msg = Log(f.Msg, "First call failed due to redirect"),
                          !.Err = err]
    /\ wrote' = wrote \cup {"Mod", "Err"}
    /\ pc' = "done"
    /\ UNCHANGED <<err, err2nd, httpsCause, resp, ctx, client, via, dev,
                   entry, dispatches, handled, outcomes, parsed, body>>

\* lines 204-245: any other error of the first dispatch
FirstFailed ==
    /\ pc = "err1"
    /\ ~IsRedirectRejection(f.OnRedirect, err)
    /\ LET cause == HttpsCause(httpsCause, err) IN
        /\ httpsCause' = cause
        /\ IF NoFallbackForPost(cause, f.Req)
           THEN LET m1 == Log(f.Msg, "Cannot do https requests. Possible reason: Dev server")
                    m2 == IF Contains(err.text, SigCancelRequest)
                          THEN Log(m1, "Did you forget to submit the AE Request?")
                          ELSE m1
                IN
                /\ f' = [f EXCEPT !.Msg = m2, !.Err = err]
                /\ wrote' = wrote \cup {"Err"}
                /\ pc' = "done"
           ELSE IF FallbackApplies(cause, f.Req)
           THEN /\ f' = [f EXCEPT !.Req = FallbackRequest(f.Req)]
                /\ pc' = "do2"
                /\ UNCHANGED wrote
           ELSE /\ pc' = "check"
                /\ UNCHANGED <<f, wrote>>
    /\ UNCHANGED <<err, err2nd, resp, ctx, client, via, now, dev,
                   entry, dispatches, handled, outcomes, parsed, body>>

\* lines 229-236: the fallback dispatch ended in a rejected redirect
FallbackRedirectRejected ==
    /\ pc = "err2"
    /\ IsRedirectRejection(f.OnRedirect, err2nd)
    /\ \E t \in now .. now + MaxDrift :
        /\ now' = t
        /\ f' = [f EXCEPT !.Mod = StaleMod(t),
                          !.Msg = Log(f.Msg, "GET fallback failed due to redirect"),
                          !.Err = err2nd]
    /\ wrote' = wrote \cup {"Mod", "Err"}
    /\ pc' = "done"
    /\ UNCHANGED <<err, err2nd, httpsCause, resp, ctx, client, via, dev,
                   entry, dispatches, handled, outcomes, parsed, body>>

\* variant: the error of the retry is stored
FallbackFailedErr_Second(first, second) == second

\* the error stored when the fallback failed otherwise (line 238)
FallbackFailedErr(first, second) == first

\* variant: a failed fallback is tried again
FallbackFailed_Retries ==
    /\ pc = "err2"
    /\ ~IsRedirectRejection(f.OnRedirect, err2nd)
    /\ f' = [f EXCEPT !.Msg = Log(f.Msg, "GET fallback to http failed with ")]
    /\ pc' = "do2"
    /\ UNCHANGED <<err, err2nd, httpsCause, resp, ctx, client, via, now, dev,
                   entry, dispatches, handled, outcomes, parsed, wrote, body>>

\* lines 237-239: the fallback dispatch failed otherwise
FallbackFailed ==
    /\ pc = "err2"
    /\ ~IsRedirectRejection(f.OnRedirect, err2nd)
    /\ f' = [f EXCEPT !.Msg = Log(f.Msg, "GET fallback to http failed with "),
                      !.Err = FallbackFailedErr(err, err2nd)]
    /\ wrote' = wrote \cup {"Err"}
    /\ pc' = "done"
    /\ UNCHANGED <<err, err2nd, httpsCause, resp, ctx, client, via, now, dev,
                   entry, dispatches, handled, outcomes, parsed, body>>

\* lines 241-243: the fallback dispatch succeeded
MsgFallbackOK == "successful fallback to http"

\* variant: line 243 is missing
ClearErr_Keeps(e) == e

\* line 243: err = nil
ClearErr(e) == NoErr

FallbackSucceeded ==
    /\ pc = "ok2"
    /\ f' = [f EXCEPT !.Msg = Log(Log(f.Msg, MsgFallbackOK), "after ")]
    /\ err' = ClearErr(err)
    /\ pc' = "check"
    /\ UNCHANGED <<err2nd, httpsCause, resp, ctx, client, via, now, dev,
                   entry, dispatches, handled, outcomes, parsed, wrote, body>>

----------------------------------------------------------------------------
(* Fetch, lines 247-283: the outcome *)

\* variant: line 248 is missing
ReturnDispatchErr_ErrNotStored ==
    /\ pc = "check"
    /\ err # NoErr
    /\ pc' = "done"
    /\ UNCHANGED <<f, err, err2nd, httpsCause, resp, ctx, client, via, now, dev,
                   entry, dispatches, handled, outcomes, parsed, wrote, body>>

\* lines 247-250
ReturnDispatchErr ==
    /\ pc = "check"
    /\ err # NoErr
    /\ f' = [f EXCEPT !.Err = err]
    /\ wrote' = wrote \cup {"Err"}
    /\ pc' = "done"
    /\ UNCHANGED <<err, err2nd, httpsCause, resp, ctx, client, via, now, dev,
                   entry, dispatches, handled, outcomes, parsed, body>>

\* variant: only the response is tested, not its body
IsEmptyResponse_NilOnly(r) == r.nil

\* line 255
IsEmptyResponse(r) == r.nil \/ ~r.Body

EmptyResponseErr == MkErr("empty", <<MsgEmptyResponse>>)

\* lines 255-258
ReturnEmptyResponse ==
    /\ pc = "check"
    /\ err = NoErr
    /\ IsEmptyResponse(resp)
    /\ f' = [f EXCEPT !.Err = EmptyResponseErr]
    /\ wrote' = wrote \cup {"Err"}
    /\ pc' = "done"
    /\ UNCHANGED <<err, err2nd, httpsCause, resp, ctx, client, via, now, dev,
                   entry, dispatches, handled, outcomes, parsed, body>>

\* results of ioutil.ReadAll(resp.Body): the bytes read and the error
FullBody == "hello"
ReadErr == MkErr("read", <<"unexpected EOF">>)
ReadResults ==
    { [bts |-> FullBody, err |-> NoErr],
      [bts |-> "he", err |-> ReadErr],
      [bts |-> "", err |-> ReadErr] }

\* lines 260-265: status and body
ReadBody ==
    /\ pc = "check"
    /\ err = NoErr
    /\ ~IsEmptyResponse(resp)
    /\ \E r \in ReadResults :
        /\ f' = [f EXCEPT !.Status = resp.StatusCode, !.bts = r.bts, !.Err = r.err]
        /\ pc' = IF r.err # NoErr THEN "done" ELSE "mod"
    /\ wrote' = wrote \cup {"Status", "bts", "Err"}
    /\ UNCHANGED <<err, err2nd, httpsCause, resp, ctx, client, via, now, dev,
                   entry, dispatches, handled, outcomes, parsed, body>>

\* time.Parse(layout, lm) for the layouts time.RFC1123 ("MST": a zone
\* abbreviation) and time.RFC1123Z ("-0700": a numeric zone); instants in minutes
DateInstant(d) == IF d = GoodDate THEN 500 ELSE -1
ZoneOffset(z) == IF z = "+0100" THEN 60 ELSE 0
TimeParseErr == MkErr("timeparse", <<"parsing time">>)
TimeParse(layout, lm) ==
    IF /\ Len(lm) = 2
       /\ DateInstant(lm[1]) >= 0
       /\ \/ layout = "RFC1123" /\ lm[2] \in {"GMT", "UTC"}
          \/ layout = "RFC1123Z" /\ lm[2] \in {"+0100", "+0000"}
    THEN [t |-> DateInstant(lm[1]) - ZoneOffset(lm[2]), err |-> NoErr]
    ELSE [t |-> ZeroTime, err |-> TimeParseErr]

\* variant: only time.RFC1123 is tried
LastModified_OneLayout(lm, e) ==
    IF lm = <<>>
    THEN [t |-> ZeroTime, err |-> e]
    ELSE TimeParse("RFC1123", lm)

\* lines 268-280: tlm and err after the parsing of the header
LastModified(lm, e) ==
    IF lm = <<>>
    THEN [t |-> ZeroTime, err |-> e]
    ELSE LET p1 == TimeParse("RFC1123", lm) IN
         IF p1.err = NoErr
         THEN p1
         ELSE LET p2 == TimeParse("RFC1123Z", lm) IN
              IF p2.err = NoErr THEN p2 ELSE [t |-> ZeroTime, err |-> p2.err]

\* lines 266-283: time stamp, return, deferred resp.Body.Close()
SetMod ==
    /\ pc = "mod"
    /\ LET r == LastModified(resp.LastModified, err) IN
        /\ f' = [f EXCEPT !.Mod = r.t]
        /\ err' = r.err
    /\ wrote' = wrote \cup {"Mod"}
    /\ body' = "closed"
    /\ pc' = "done"
    /\ UNCHANGED <<err2nd, httpsCause, resp, ctx, client, via, now, dev,
                   entry, dispatches, handled, outcomes, parsed>>

----------------------------------------------------------------------------

Next ==
    \/ Begin
    \/ BuildParseFails
    \/ BuildNewRequestFails
    \/ BuildFromURL
    \/ BuildFromReq
    \/ ForceProto
    \/ SelectClient
    \/ InstallRedirect
    \/ Dispatch1
    \/ Dispatch2
    \/ ServerRedirects
    \/ TransportFails
    \/ ServerResponds
    \/ FirstRedirectRejected
    \/ FirstFailed
    \/ FallbackRedirectRejected
    \/ FallbackFailed
    \/ FallbackSucceeded
    \/ ReturnDispatchErr
    \/ ReturnEmptyResponse
    \/ ReadBody
    \/ SetMod

Spec == Init /\ [][Next]_vars

----------------------------------------------------------------------------
(* Properties *)

Returned == pc = "done"

\* the error text holds one of the two TLS signatures
HasTlsSignature(e) ==
    \E i \in DOMAIN e.text : e.text[i] \in {SigCert, SigOversized}

\* the error text holds the redirect marker
HasRedirectMarker(e) ==
    \E i \in DOMAIN e.text : e.text[i] = MsgNoRedirects

\* the i-th client.Do has returned an error
DoFailed(i) == i \in DOMAIN outcomes /\ outcomes[i] # NoErr

\* the i-th client.Do has returned without error
DoSucceeded(i) == i \in DOMAIN outcomes /\ outcomes[i] = NoErr

\* C1: after Fetch returns, either Err is set, or Status and the body were
\* assigned by this call; never both and never neither, and with Err set
\* neither Status nor the body was assigned.
C1_ExactlyOneOutcome ==
    Returned =>
        /\ (f.Err # NoErr) # ({"Status", "bts"} \subseteq wrote)
        /\ (f.Err # NoErr) => (wrote \cap {"Status", "bts"} = {})

\* C2: the transport is dispatched at most twice in one Fetch call.
C2_AtMostTwoDispatches == Len(dispatches) <= 2

C2_Witness ==
    /\ Returned
    /\ Len(dispatches) = 2
    /\ DoFailed(1)
    /\ DoFailed(2)

\* the first dispatch was made over https and failed with a TLS signature
FirstFailedTls ==
    /\ DoFailed(1)
    /\ dispatches[1].Scheme = "https"
    /\ HasTlsSignature(outcomes[1])

\* C3 as stated: a GET over https whose first dispatch fails with a TLS
\* signature is retried exactly once over http; a POST is never retried and
\* its stored error is the error of the first dispatch.
C3_TlsFailureRetriedOnce ==
    (Returned /\ FirstFailedTls) =>
        /\ dispatches[1].Method = "GET" =>
              (Len(dispatches) = 2 /\ dispatches[2].Scheme = "http")
        /\ dispatches[1].Method = "POST" =>
              (Len(dispatches) = 1 /\ f.Err = outcomes[1])

\* C3 amended: the GET is retried exactly once over http unless the failure
\* of the first dispatch is a redirect rejection (OnRedirect = 1 and the
\* redirect marker in the error); the POST is never retried and keeps the
\* error of the first dispatch.
C3_TlsFailureRetriedUnlessRedirect ==
    (Returned /\ FirstFailedTls) =>
        /\ (/\ dispatches[1].Method = "GET"
            /\ ~(f.OnRedirect = 1 /\ HasRedirectMarker(outcomes[1]))) =>
              (Len(dispatches) = 2 /\ dispatches[2].Scheme = "http")
        /\ dispatches[1].Method = "POST" =>
              (Len(dispatches) = 1 /\ f.Err = outcomes[1])

C3_Witness ==
    /\ Returned
    /\ FirstFailedTls
    /\ dispatches[1].Method = "GET"
    /\ Contains(outcomes[1].text, SigOversized)
    /\ Len(dispatches) = 2

\* C4: when the fallback retry fails, Err on return is the error of the first
\* dispatch and not the error of the retry, unless the retry failed with a
\* redirect rejection under OnRedirect = 1: then Err is the error of the retry.
C4_FailedFallbackKeepsOriginalErr ==
    (Returned /\ DoFailed(2)) =>
        IF f.OnRedirect = 1 /\ HasRedirectMarker(outcomes[2])
        THEN f.Err = outcomes[2]
        ELSE f.Err = outcomes[1] /\ f.Err # outcomes[2]

C4_Witness ==
    /\ Returned
    /\ DoFailed(2)
    /\ ~HasRedirectMarker(outcomes[2])
    /\ HasTlsSignature(outcomes[2])

\* C5 as stated: when the fallback retry succeeds, Err is nil after Fetch
\* returns and Msg holds the fallback-success marker.
C5_FallbackSuccessErrNil ==
    (Returned /\ DoSucceeded(2)) =>
        /\ f.Err = NoErr
        /\ Contains(f.Msg, MsgFallbackOK)

\* C5 amended: when the fallback retry succeeds, Msg holds the
\* fallback-success marker and Err after Fetch returns is nil, unless the
\* response is empty (Err is then the empty-response error) or the reading of
\* its body fails (Err is then the read error).
C5_FallbackSuccessErrNilUnlessNoBody ==
    (Returned /\ DoSucceeded(2)) =>
        /\ Contains(f.Msg, MsgFallbackOK)
        /\ IF resp.nil \/ ~resp.Body
           THEN f.Err = EmptyResponseErr
           ELSE f.Err = NoErr \/ (f.Err = ReadErr /\ f.bts # FullBody)

C5_Witness ==
    /\ Returned
    /\ DoSucceeded(2)
    /\ f.Err = NoErr
    /\ f.Status = 200

\* C6: when the URL of a job without request fails to parse, Fetch returns
\* without any dispatch and Err is the parse error.
C6_ParseFailureNoDispatch ==
    parsed = "failed" =>
        /\ Returned
        /\ f.Req.nil
        /\ dispatches = <<>>
        /\ f.Err = ParseErr

C6_Witness ==
    /\ parsed = "failed"
    /\ Returned
    /\ f.Err # NoErr

\* C7: with OnRedirect = 1 a dispatch that fails with the redirect marker in
\* its error is the last dispatch, also when the error holds a TLS signature:
\* Fetch returns with Mod ten minutes before the clock reading and with the
\* error of that dispatch in Err.
C7_RedirectRejectionIsTerminal ==
    \A i \in DOMAIN outcomes :
        (f.OnRedirect = 1 /\ HasRedirectMarker(outcomes[i])) =>
            /\ Len(outcomes) = i
            /\ Len(dispatches) = i
            /\ pc \in {"err1", "err2", "done"}
            /\ Returned => (f.Err = outcomes[i] /\ f.Mod = now - TenMinutes)

C7_Witness ==
    /\ Returned
    /\ f.OnRedirect = 1
    /\ Len(outcomes) = 1
    /\ HasRedirectMarker(outcomes[1])
    /\ HasTlsSignature(outcomes[1])
    /\ dispatches[1].Scheme = "https"
    /\ dispatches[1].Method = "GET"

\* C8: the redirect handler accepts a redirect exactly when one request was
\* made before it and the target path is that request's path plus "/"; every
\* other redirect gets the error made of the marker, the visited paths in
\* order and the target path.
C8_OnlySlashRedirectAccepted ==
    \A i \in DOMAIN handled :
        LET h == handled[i] IN
        /\ f.OnRedirect = 1
        /\ (h.result = NoErr) <=>
              (Len(h.via) = 1 /\ h.target = h.via[1] \o "/")
        /\ (h.result # NoErr) =>
              /\ Len(h.result.text) = Len(h.via) + 2
              /\ h.result.text[1] = MsgNoRedirects
              /\ \A k \in DOMAIN h.via : h.result.text[k + 1] = h.via[k]
              /\ h.result.text[Len(h.via) + 2] = h.target

C8_Witness ==
    /\ Len(handled) = 2
    /\ handled[1].result = NoErr
    /\ handled[2].result # NoErr
    /\ handled[2].target = handled[2].via[1] \o "/"

\* C9: once the forced protocol is applied ("https:" as "https"), every
\* dispatch of the call is made with the forced scheme.
C9_ForcedSchemeOnEveryDispatch ==
    (pc \notin {"entry", "build", "force"} /\ ~f.Req.nil) =>
        /\ f.ForceProtocol # "https:"
        /\ f.ForceProtocol \in {"http", "https"} =>
              \A i \in DOMAIN dispatches : dispatches[i].Scheme = f.ForceProtocol

\* C10: when the dispatch succeeds with a nil response or a nil body, Fetch
\* returns the empty-response error whatever the status code and stores
\* neither the status code nor body bytes.
C10_NilBodyIsEmptyResponse ==
    (/\ Returned
     /\ outcomes # <<>>
     /\ outcomes[Len(outcomes)] = NoErr
     /\ (resp.nil \/ ~resp.Body)) =>
        /\ f.Err = EmptyResponseErr
        /\ Contains(f.Err.text, MsgEmptyResponse)
        /\ wrote \cap {"Status", "bts"} = {}
        /\ f.Status = entry.Status
        /\ f.bts = entry.bts

C10_Witness ==
    /\ Returned
    /\ outcomes = <<NoErr>>
    /\ ~resp.nil
    /\ ~resp.Body
    /\ resp.StatusCode = 200
    /\ entry.Status # 200

\* s is a prefix of t
IsPrefix(s, t) == Len(s) <= Len(t) /\ SubSeq(t, 1, Len(s)) = s

\* C11: Msg is append-only within one Fetch call: every step leaves the
\* Msg it found as a prefix of the new Msg, so Msg at call entry stays a
\* prefix and Msg is never cleared or shortened.
C11_MsgAppendOnly == [][IsPrefix(f.Msg, f'.Msg)]_vars

C11_Witness ==
    /\ Returned
    /\ entry.Msg # <<>>
    /\ IsPrefix(entry.Msg, f.Msg)
    /\ Len(f.Msg) >= Len(entry.Msg) + 6

\* C12: a response body that was obtained is closed when Fetch has
\* returned, whether the reading of it succeeded or failed.
C12_BodyClosedOnReturn ==
    Returned => body # "open"

\* Fetch has returned without reaching the end of the procedure (line 283)
TerminalFailure == Returned /\ body # "closed"

\* the messages Fetch appends where it gives up
FailureMsgs ==
    { "First call failed due to redirect",
      "GET fallback failed due to redirect",
      "GET fallback to http failed with ",
      "Cannot do https requests. Possible reason: Dev server",
      "Did you forget to submit the AE Request?" }

\* the last piece of Msg is one of these messages
LoggedAtFailure == f.Msg # <<>> /\ f.Msg[Len(f.Msg)] \in FailureMsgs

\* the last dispatch failed with a redirect rejection
LastRejected ==
    /\ outcomes # <<>>
    /\ f.OnRedirect = 1
    /\ HasRedirectMarker(outcomes[Len(outcomes)])

\* the only dispatch was a POST over https that failed with a TLS signature
PostFailedTls ==
    /\ Len(outcomes) = 1
    /\ FirstFailedTls
    /\ dispatches[1].Method = "POST"

\* C13 as stated: every terminal failure sets Err and appends a message that
\* describes it to Msg.
C13_FailureSetsErrAndMsg ==
    TerminalFailure => (f.Err # NoErr /\ LoggedAtFailure)

\* C13 amended: every terminal failure sets Err; a message that describes
\* the failure is appended to Msg exactly for a redirect rejection, a TLS
\* failure of a POST over https and a failed fallback, and not for a parse
\* error, a request-build error, another transport error, an empty response
\* or a body read error.
C13_FailureSetsErrAndSomeMsg ==
    TerminalFailure =>
        /\ f.Err # NoErr
        /\ "Err" \in wrote
        /\ LoggedAtFailure <=> (LastRejected \/ PostFailedTls \/ DoFailed(2))

C13_Witness ==
    /\ TerminalFailure
    /\ DoFailed(2)
    /\ ~LastRejected
    /\ LoggedAtFailure

\* the instant time.Parse gives for the header values of the model
\* (minutes; "+0100" is one hour east of GMT), the zero time for the others
ExpectedMod(lm) ==
    IF lm = <<GoodDate, "GMT">> THEN 500
    ELSE IF lm = <<GoodDate, "+0100">> THEN 440
    ELSE ZeroTime

\* C14: after a successful fetch Mod is the zero time when Last-Modified is
\* absent or parses under neither RFC1123 nor RFC1123Z, and else the instant
\* of the first layout that parses; the Mod of before the call is overwritten.
C14_ModFromLastModified ==
    (Returned /\ f.Err = NoErr) =>
        /\ "Mod" \in wrote
        /\ f.Mod = ExpectedMod(resp.LastModified)

C14_Witness ==
    /\ Returned
    /\ f.Err = NoErr
    /\ entry.Mod # ZeroTime
    /\ resp.LastModified = <<"yesterday", "GMT">>
    /\ f.Mod = ZeroTime

\* C15: on the development server (environment probe true) and without
\* ForceHttps, the first dispatch is made with scheme "http", whichever
\* client was selected.
C15_DevServerDowngrades ==
    (dev /\ ~f.ForceHttps /\ dispatches # <<>>) =>
        dispatches[1].Scheme = "http"

\* the number of pieces of Msg equal to piece
RECURSIVE Count(_, _)
Count(msg, piece) ==
    IF msg = <<>> THEN 0
    ELSE Count(Tail(msg), piece) + (IF Head(msg) = piece THEN 1 ELSE 0)

\* the client has been chosen
ClientSelected == pc \notin {"entry", "build", "force", "client"} /\ ~f.Req.nil

\* C16: when AeReq is supplied and no context comes out of it (panic or
\* nil), this is recorded in Msg, Fetch goes on with the default client
\* ("standard  client" logged) and dispatches; the appengine client is
\* selected only with a context; exactly one of the two client messages is
\* logged once the client is chosen.
C16_DerivationFailureFallsBack ==
    ClientSelected =>
        /\ (f.AeReq /\ ~ctx) =>
              /\ Contains(f.Msg, "appengine panic: ")
              /\ client.kind = "standard"
              /\ Contains(f.Msg, "standard  client")
              /\ Returned => dispatches # <<>>
        /\ client.kind = "appengine" => (f.AeReq /\ ctx)
        /\ client.kind = "appengine" <=> Contains(f.Msg, "appengine client")
        /\ Count(f.Msg, "standard  client") + Count(f.Msg, "appengine client") = 1

C16_Witness ==
    /\ Returned
    /\ f.AeReq
    /\ ~ctx
    /\ client.kind = "standard"
    /\ dispatches # <<>>
    /\ f.Err = NoErr

\* C17: a first dispatch that fails with an error that is no redirect
\* rejection and that holds no TLS signature, or that was made with a scheme
\* other than https, is terminal: one dispatch, Err is that error, no
\* fallback.  A timeout is such an error.
C17_OtherFailureIsTerminal ==
    (/\ Returned
     /\ DoFailed(1)
     /\ ~(f.OnRedirect = 1 /\ HasRedirectMarker(outcomes[1]))
     /\ (~HasTlsSignature(outcomes[1]) \/ dispatches[1].Scheme # "https")) =>
        /\ Len(dispatches) = 1
        /\ Len(outcomes) = 1
        /\ f.Err = outcomes[1]

C17_Witness ==
    /\ Returned
    /\ DoFailed(1)
    /\ HasTlsSignature(outcomes[1])
    /\ ~HasRedirectMarker(outcomes[1])
    /\ dispatches[1].Scheme = "http"
    /\ dispatches[1].Method = "GET"
    /\ f.ForceProtocol = "http"

\* C18: a supplied request takes precedence over the URL string, which is
\* neither parsed nor rewritten; its empty scheme becomes "https" and any
\* other scheme stays; with a supplied request and with a URL string an
\* empty path becomes "/", so every dispatch has a non-empty path.
C18_RequestNormalized ==
    /\ [][(~f.Req.nil /\ parsed = "none") =>
             (parsed' = "none" /\ f'.URL = f.URL)]_vars
    /\ [][(pc = "build" /\ ~f.Req.nil) =>
             /\ pc' = "force"
             /\ f'.Req.Method = f.Req.Method
             /\ f'.Req.Scheme = (IF f.Req.Scheme = "" THEN "https" ELSE f.Req.Scheme)
             /\ f'.Req.Path = (IF f.Req.Path = "" THEN "/" ELSE f.Req.Path)]_vars
    /\ [][(pc = "build" /\ pc' = "force") => f'.Req.Path # ""]_vars
    /\ [](\A i \in DOMAIN dispatches : dispatches[i].Path # "")

C18_Witness ==
    /\ Returned
    /\ parsed = "none"
    /\ dispatches # <<>>
    /\ dispatches[1].Path = "/"
    /\ dispatches[1].Scheme = "https"
    /\ f.ForceProtocol = ""
    /\ f.Err = NoErr

\* C19: a second dispatch is made only after a first dispatch of a GET over
\* https, and it is made over http; from then on, and when Fetch has
\* returned, whether the retry succeeded or failed, the scheme of f.Req is
\* "http".
C19_FallbackOverHttpKept ==
    Len(dispatches) >= 2 =>
        /\ dispatches[1].Scheme = "https"
        /\ dispatches[1].Method = "GET"
        /\ dispatches[2].Scheme = "http"
        /\ dispatches[2].Method = "GET"
        /\ f.Req.Scheme = "http"

C19_Witness ==
    /\ Returned
    /\ Len(dispatches) = 2
    /\ DoFailed(2)
    /\ f.Err = outcomes[1]
    /\ f.Req.Scheme = "http"

\* C20: when Fetch returns with Err set before the body is read, Status and
\* the body bytes are those of call entry; a failing Fetch assigns Mod only
\* for a redirect rejection under OnRedirect = 1, and else (also for an error
\* with the redirect marker under another OnRedirect) leaves Mod as it was.
C20_FailureLeavesOutcomeFields ==
    (Returned /\ f.Err # NoErr) =>
        /\ f.Err # ReadErr =>
              (f.Status = entry.Status /\ f.bts = entry.bts)
        /\ ("Mod" \in wrote) <=> LastRejected
        /\ ~LastRejected => f.Mod = entry.Mod

C20_Witness ==
    /\ Returned
    /\ f.OnRedirect = 0
    /\ Len(outcomes) = 1
    /\ HasRedirectMarker(outcomes[1])
    /\ f.Err = outcomes[1]
    /\ entry.Mod # ZeroTime
    /\ entry.Status # 0

====
